---- MODULE Spec2Model ----
(***************************************************************************)
(* Model of the banner-generation function (netlify function handler,      *)
(* extractWebpageContent, generateBannerWithAI) and of the page that calls *)
(* it (App.tsx: analyzeUrl, regenerateBanner).                             *)
(*                                                                         *)
(* JavaScript strings that the code inspects character by character        *)
(* (page text, attribute values, style text, color literals, generated     *)
(* text) are sequences of one-character strings.  Strings that the code    *)
(* only passes along or compares as a whole (url, template, messages) are  *)
(* TLA+ strings.  An optional JavaScript value (undefined or a value) is   *)
(* a sequence of length 0 or 1.                                            *)
(***************************************************************************)
EXTENDS Integers, Sequences, FiniteSets, TLC

VARIABLES pc, event, env, page, webpageContent, colors, response, calls,
          aiResponse, caught, app, requests

\* the state of the handler and the state of the client page
server == <<pc, event, env, page, webpageContent, colors, response, calls,
            aiResponse, caught>>

client == <<app, requests>>

vars == <<pc, event, env, page, webpageContent, colors, response, calls,
          aiResponse, caught, app, requests>>

(***************************************************************************)
(* Bounds of the model                                                     *)
(***************************************************************************)
\* longest run of white space put before or after a text
MaxPad == 1
\* largest number of lexemes in a style block
MaxLexemes == 4

\* most entries joined into one keywords content, after the run that fills
\* the list up to its cap
MaxEntries == 3

\* most parts a generated text is put together from
MaxParts == 4

(***************************************************************************)
(* JavaScript string primitives                                            *)
(***************************************************************************)
Min(a, b) == IF a < b THEN a ELSE b

WhiteSpace == {" ", "\t", "\n"}

\* n copies of the character c
Rep(c, n) == [i \in 1..n |-> c]

RECURSIVE TrimStart(_)
TrimStart(s) ==
    IF s # << >> /\ Head(s) \in WhiteSpace THEN TrimStart(Tail(s)) ELSE s

RECURSIVE TrimEnd(_)
TrimEnd(s) ==
    IF s # << >> /\ s[Len(s)] \in WhiteSpace
    THEN TrimEnd(SubSeq(s, 1, Len(s) - 1))
    ELSE s

\* String.prototype.trim
Trim(s) == TrimEnd(TrimStart(s))

\* String.prototype.substring(a, b) and Array.prototype.slice(a, b), 0 <= a <= b
Substring(s, a, b) == SubSeq(s, a + 1, Min(b, Len(s)))

Slice(s, a, b) == SubSeq(s, a + 1, Min(b, Len(s)))

UpperCase == <<"A", "B", "C", "D", "E", "F", "G", "H", "I", "J", "K", "L", "M",
               "N", "O", "P", "Q", "R", "S", "T", "U", "V", "W", "X", "Y", "Z">>

LowerCase == <<"a", "b", "c", "d", "e", "f", "g", "h", "i", "j", "k", "l", "m",
               "n", "o", "p", "q", "r", "s", "t", "u", "v", "w", "x", "y", "z">>

LowerChar(c) ==
    IF \E i \in 1..Len(UpperCase) : UpperCase[i] = c
    THEN LowerCase[CHOOSE i \in 1..Len(UpperCase) : UpperCase[i] = c]
    ELSE c

\* String.prototype.toLowerCase
ToLowerCase(s) == [i \in 1..Len(s) |-> LowerChar(s[i])]

\* whether the characters of t stand in s from (1-based) position i on
StartsAt(s, i, t) ==
    /\ i + Len(t) - 1 <= Len(s)
    /\ \A k \in 1..Len(t) : s[i + k - 1] = t[k]

\* a || b on optional values: undefined and "" are falsy
Truthy(opt) == opt # << >> /\ opt[1] # << >>

OrElse(a, b) == IF Truthy(a) THEN a ELSE b

(***************************************************************************)
(* The fetched document, as the selectors of extractWebpageContent see it  *)
(*   titleText        $('title').text()                                    *)
(*   ogTitle          $('meta[property="og:title"]').attr('content')       *)
(*   h1Text           $('h1').first().text()                               *)
(*   metaDescription  $('meta[name="description"]').attr('content')        *)
(*   ogDescription    $('meta[property="og:description"]').attr('content') *)
(*   pText            $('p').first().text()                                *)
(*   keywordsContent  $('meta[name="keywords"]').attr('content')           *)
(*   styleContent     $('style').text()                                    *)
(* text() of an empty selection is "", attr() of a missing element or      *)
(* attribute is undefined.                                                 *)
(***************************************************************************)
TitleCap == 100

DescriptionCap == 200

KeywordCap == 10

ColorCap == 3

\* "Untitled Page"
UntitledPage == <<"U", "n", "t", "i", "t", "l", "e", "d", " ", "P", "a", "g", "e">>

\* "No description available"
NoDescription ==
    <<"N", "o", " ", "d", "e", "s", "c", "r", "i", "p", "t", "i", "o", "n", " ",
      "a", "v", "a", "i", "l", "a", "b", "l", "e">>

\* the first heading tried before og:title
ExtractTitleH1First(doc) ==
    OrElse(OrElse(OrElse(<<Trim(doc.titleText)>>, <<Trim(doc.h1Text)>>),
                  doc.ogTitle),
           <<UntitledPage>>)[1]

ExtractTitle(doc) ==
    OrElse(OrElse(OrElse(<<Trim(doc.titleText)>>, doc.ogTitle),
                  <<Trim(doc.h1Text)>>),
           <<UntitledPage>>)[1]

\* og:description tried before the description meta
ExtractDescriptionOgFirst(doc) ==
    OrElse(OrElse(OrElse(doc.ogDescription, doc.metaDescription),
                  <<Substring(Trim(doc.pText), 0, DescriptionCap)>>),
           <<NoDescription>>)[1]

ExtractDescription(doc) ==
    OrElse(OrElse(OrElse(doc.metaDescription, doc.ogDescription),
                  <<Substring(Trim(doc.pText), 0, DescriptionCap)>>),
           <<NoDescription>>)[1]

\* String.prototype.split(','): the pieces between the commas
RECURSIVE SplitFrom(_, _, _)
SplitFrom(s, i, piece) ==
    IF i > Len(s) THEN <<piece>>
    ELSE IF s[i] = "," THEN <<piece>> \o SplitFrom(s, i + 1, << >>)
    ELSE SplitFrom(s, i + 1, Append(piece, s[i]))

Split(s) == SplitFrom(s, 1, << >>)

\* the entries with repeated ones dropped
ExtractKeywordsUnique(doc) ==
    LET keywordsContent == OrElse(doc.keywordsContent, << << >> >>)[1]
        RECURSIVE Distinct(_, _)
        Distinct(xs, seen) ==
            IF xs = << >> THEN << >>
            ELSE IF Head(xs) \in seen THEN Distinct(Tail(xs), seen)
            ELSE <<Head(xs)>> \o Distinct(Tail(xs), seen \cup {Head(xs)})
    IN  IF keywordsContent # << >>
        THEN LET parts == Split(keywordsContent)
             IN  Distinct([i \in 1..Len(parts) |-> Trim(parts[i])], {})
        ELSE << >>

ExtractKeywords(doc) ==
    LET keywordsContent == OrElse(doc.keywordsContent, << << >> >>)[1]
    IN  IF keywordsContent # << >>
        THEN LET parts == Split(keywordsContent)
             IN  [i \in 1..Len(parts) |-> Trim(parts[i])]
        ELSE << >>

(***************************************************************************)
(* Color literals: /#[0-9a-fA-F]{6}|#[0-9a-fA-F]{3}|rgb\([^)]+\)|          *)
(*                  rgba\([^)]+\)/g                                        *)
(***************************************************************************)
HexDigit == {"0", "1", "2", "3", "4", "5", "6", "7", "8", "9",
             "a", "b", "c", "d", "e", "f", "A", "B", "C", "D", "E", "F"}

\* length of the match of #[0-9a-fA-F]{n} at position i, 0 when there is none
HexLenAt(s, i, n) ==
    IF /\ i + n <= Len(s)
       /\ s[i] = "#"
       /\ \A k \in 1..n : s[i + k] \in HexDigit
    THEN n + 1 ELSE 0

\* length of the match of name\([^)]+\) at position i, 0 when there is none
FuncLenAt(s, i, name) ==
    LET open == i + Len(name)
        closers == {j \in (open + 1)..Len(s) : s[j] = ")"}
    IN  IF /\ StartsAt(s, i, name)
           /\ closers # {}
           /\ s[open] # ")"
        THEN (CHOOSE j \in closers : \A k \in closers : j <= k) - i + 1
        ELSE 0

RgbOpen == <<"r", "g", "b", "(">>

RgbaOpen == <<"r", "g", "b", "a", "(">>

\* the alternatives in the order the regular expression tries them
MatchLenAt(s, i) ==
    IF HexLenAt(s, i, 6) > 0 THEN HexLenAt(s, i, 6)
    ELSE IF HexLenAt(s, i, 3) > 0 THEN HexLenAt(s, i, 3)
    ELSE IF FuncLenAt(s, i, RgbOpen) > 0 THEN FuncLenAt(s, i, RgbOpen)
    ELSE FuncLenAt(s, i, RgbaOpen)

RECURSIVE MatchFrom(_, _)
MatchFrom(s, i) ==
    IF i > Len(s) THEN << >>
    ELSE LET n == MatchLenAt(s, i)
         IN  IF n > 0 THEN <<SubSeq(s, i, i + n - 1)>> \o MatchFrom(s, i + n)
                      ELSE MatchFrom(s, i + 1)

\* styleContent.match(/.../g); null (no match) is the empty sequence, which
\* match never returns otherwise
ColorMatches(styleContent) == MatchFrom(styleContent, 1)

\* [...new Set(xs)]: the first occurrence of every value, in order
RECURSIVE UniqueOf(_)
UniqueOf(xs) ==
    IF xs = << >> THEN << >>
    ELSE LET init == UniqueOf(SubSeq(xs, 1, Len(xs) - 1))
             last == xs[Len(xs)]
         IN  IF \E i \in 1..Len(init) : init[i] = last THEN init
             ELSE Append(init, last)

\* ['#000', '#fff', '#ffffff', '#000000', 'rgb(0,0,0)', 'rgb(255,255,255)']
CommonColors ==
    { <<"#", "0", "0", "0">>,
      <<"#", "f", "f", "f">>,
      <<"#", "f", "f", "f", "f", "f", "f">>,
      <<"#", "0", "0", "0", "0", "0", "0">>,
      <<"r", "g", "b", "(", "0", ",", "0", ",", "0", ")">>,
      <<"r", "g", "b", "(", "2", "5", "5", ",", "2", "5", "5", ",", "2", "5", "5", ")">> }

IsCommonColor(color) == ToLowerCase(color) \in CommonColors

\* .filter(color => !CommonColors.includes(color.toLowerCase()))
RECURSIVE FilterCommon(_)
FilterCommon(xs) ==
    IF xs = << >> THEN << >>
    ELSE IF IsCommonColor(Head(xs)) THEN FilterCommon(Tail(xs))
    ELSE <<Head(xs)>> \o FilterCommon(Tail(xs))

\* the cap applied before the filter
ExtractColorsCapFirst(styleContent) ==
    LET colorMatches == ColorMatches(styleContent)
    IN  IF colorMatches # << >>
        THEN FilterCommon(Slice(UniqueOf(colorMatches), 0, ColorCap))
        ELSE << >>

ExtractColors(styleContent) ==
    LET colorMatches == ColorMatches(styleContent)
    IN  IF colorMatches # << >>
        THEN Slice(FilterCommon(UniqueOf(colorMatches)), 0, ColorCap)
        ELSE << >>

\* the object extractWebpageContent returns (mainContent and domain feed only
\* the prompt text)
Content(doc) ==
    [ title           |-> Substring(ExtractTitle(doc), 0, TitleCap),
      description     |-> Substring(ExtractDescription(doc), 0, DescriptionCap),
      keywords        |-> Slice(ExtractKeywords(doc), 0, KeywordCap),
      extractedColors |-> ExtractColors(doc.styleContent) ]

(***************************************************************************)
(* generateBannerWithAI: the fragment cut out of the generated text        *)
(***************************************************************************)
SvgOpen == <<"<", "s", "v", "g">>

SvgClose == <<"<", "/", "s", "v", "g", ">">>

\* positions where t stands in s, letter case ignored (the i flag)
PositionsOf(s, t) ==
    {i \in 1..Len(s) : i + Len(t) - 1 <= Len(s)
                       /\ ToLowerCase(SubSeq(s, i, i + Len(t) - 1)) = t}

\* the match without the i flag
SvgMatchCaseSensitive(text) ==
    LET at(t) == {i \in 1..Len(text) : i + Len(t) - 1 <= Len(text)
                                        /\ SubSeq(text, i, i + Len(t) - 1) = t}
        opens == at(SvgOpen)
        first == CHOOSE i \in opens : \A k \in opens : i <= k
        closes == {j \in at(SvgClose) : j >= first + Len(SvgOpen)}
        last == CHOOSE j \in closes : \A k \in closes : j >= k
    IN  IF opens = {} THEN << >>
        ELSE IF closes = {} THEN << >>
        ELSE <<SubSeq(text, first, last + Len(SvgClose) - 1)>>

\* a match that takes an opening tag without its closing tag, up to the end
SvgMatchUnclosed(text) ==
    LET opens == PositionsOf(text, SvgOpen)
        first == CHOOSE i \in opens : \A k \in opens : i <= k
        closes == {j \in PositionsOf(text, SvgClose) : j >= first + Len(SvgOpen)}
        last == CHOOSE j \in closes : \A k \in closes : j >= k
    IN  IF opens = {} THEN << >>
        ELSE IF closes = {} THEN <<SubSeq(text, first, Len(text))>>
        ELSE <<SubSeq(text, first, last + Len(SvgClose) - 1)>>

\* svgContent.match(/<svg[\s\S]*<\/svg>/i): from the first <svg to the last
\* </svg> after it; the result is optional (null when there is no match)
SvgMatch(text) ==
    LET opens == PositionsOf(text, SvgOpen)
        first == CHOOSE i \in opens : \A k \in opens : i <= k
        closes == {j \in PositionsOf(text, SvgClose) : j >= first + Len(SvgOpen)}
        last == CHOOSE j \in closes : \A k \in closes : j >= k
    IN  IF opens = {} THEN << >>
        ELSE IF closes = {} THEN << >>
        ELSE <<SubSeq(text, first, last + Len(SvgClose) - 1)>>

(***************************************************************************)
(* handler: the request                                                    *)
(*   env.ANTHROPIC_API_KEY   optional string, read at request time         *)
(*   event.httpMethod                                                      *)
(*   event.body              null, text that is no JSON, or the JSON of an *)
(*                           object that may hold url and template         *)
(***************************************************************************)
Templates == {"modern", "minimal", "gradient", "bold"}

MsgRequired == "URL and template are required"

MsgInvalidUrl == "Invalid URL provided"

MsgMethod == "Method not allowed"

MsgInternal == "Internal server error"

MsgNoKey == "ANTHROPIC_API_KEY environment variable is not set"

MsgJson == "Unexpected token in JSON"

MsgAnalyze == "Failed to analyze webpage content"

MsgGenerate == "Failed to generate banner with AI"

\* the errors thrown inside extractWebpageContent and generateBannerWithAI
ErrTimeout == "network timeout"

ErrStatus404 == "HTTP error! status: 404"

ErrStatus503 == "HTTP error! status: 503"

ErrRead == "reading or parsing the page failed"

FetchErrors == {ErrTimeout, ErrStatus404, ErrStatus503, ErrRead}

ErrNoSvg == "No valid SVG found in AI response"

ErrService == "the generation service failed"

GenerationErrors == {ErrService}

MsgTypeError == "Cannot read properties of undefined (reading '1')"

None == [none |-> TRUE]

\* a field of a parsed object: undefined when the object has no such key
Field(obj, key) == IF key \in DOMAIN obj THEN <<obj[key]>> ELSE << >>

\* !template: undefined or ""
NoTemplate(opt) == opt = << >> \/ opt[1] = ""

Alpha == {UpperCase[i] : i \in 1..Len(UpperCase)} \cup {LowerCase[i] : i \in 1..Len(LowerCase)}

Digit == {"0", "1", "2", "3", "4", "5", "6", "7", "8", "9"}

\* position of the first ':' of s, 0 when there is none
ColonAt(s) ==
    LET at == {i \in 1..Len(s) : s[i] = ":"}
    IN  IF at = {} THEN 0 ELSE CHOOSE i \in at : \A k \in at : i <= k

\* the scheme of s in lower case, << >> when s does not start with one
SchemeOf(s) ==
    LET c == ColonAt(s)
    IN  IF /\ c > 1
           /\ s[1] \in Alpha
           /\ \A i \in 2..(c - 1) : s[i] \in Alpha \cup Digit \cup {"+", "-", "."}
        THEN ToLowerCase(SubSeq(s, 1, c - 1))
        ELSE << >>

Http == <<"h", "t", "t", "p">>

Https == <<"h", "t", "t", "p", "s">>

RECURSIVE SkipSlashes(_)
SkipSlashes(s) ==
    IF s # << >> /\ Head(s) \in {"/", "\\"} THEN SkipSlashes(Tail(s)) ELSE s

\* the host text of a special-scheme url: up to the first of / ? #
RECURSIVE HostPart(_)
HostPart(s) ==
    IF s = << >> \/ Head(s) \in {"/", "?", "#", "\\"} THEN << >>
    ELSE <<Head(s)>> \o HostPart(Tail(s))

\* new URL(url) does not throw: the text has a scheme, and an http(s) url
\* has a host without white space
UrlParses(url) ==
    LET s == Trim(url)
        scheme == SchemeOf(s)
        host == HostPart(SkipSlashes(SubSeq(s, Len(scheme) + 2, Len(s))))
    IN  /\ scheme # << >>
        /\ scheme \in {Http, Https} =>
              host # << >> /\ \A i \in 1..Len(host) : host[i] \notin WhiteSpace

\* node-fetch accepts only http and https urls
FetchSupports(url) == SchemeOf(Trim(url)) \in {Http, Https}

Response(status, body) == [statusCode |-> status, body |-> body]

Failure(message) ==
    Response(500, [error |-> MsgInternal, message |-> message])

\* defaultColorPalettes[template]: undefined for any other template
Palette(template) ==
    CASE template = "modern" ->
           << <<"#", "3", "B", "8", "2", "F", "6">>, <<"#", "6", "4", "7", "4", "8", "B">> >>
      [] template = "minimal" ->
           << <<"#", "1", "F", "2", "9", "3", "7">>, <<"#", "9", "C", "A", "3", "A", "F">> >>
      [] template = "gradient" ->
           << <<"#", "6", "3", "6", "6", "F", "1">>, <<"#", "E", "C", "4", "8", "9", "9">> >>
      [] template = "bold" ->
           << <<"#", "E", "F", "4", "4", "4", "4">>, <<"#", "F", "5", "9", "E", "0", "B">> >>

DefaultColorPalette(template) ==
    IF template \in Templates THEN <<Palette(template)>> ELSE << >>

\* one extracted color is enough to drop the default pair
ResolveColorsPassThrough(template, extractedColors) ==
    IF Len(extractedColors) >= 1
    THEN [threw |-> FALSE, colors |-> <<Slice(extractedColors, 0, 2)>>]
    ELSE [threw |-> FALSE, colors |-> DefaultColorPalette(template)]

\* lines 219-224: the colors of the result (optional: undefined when the
\* template has no palette), or the TypeError of indexing undefined
ResolveColors(template, extractedColors) ==
    IF Len(extractedColors) >= 2
    THEN [threw |-> FALSE, colors |-> <<Slice(extractedColors, 0, 2)>>]
    ELSE IF Len(extractedColors) = 1
    THEN IF DefaultColorPalette(template) = << >>
         THEN [threw |-> TRUE, colors |-> << >>]
         ELSE [threw |-> FALSE,
               colors |-> << <<extractedColors[1], DefaultColorPalette(template)[1][2]>> >>]
    ELSE [threw |-> FALSE, colors |-> DefaultColorPalette(template)]

\* the url check dropped
EarlyResponseNoUrlCheck(e, environment) ==
    IF e.httpMethod = "OPTIONS" THEN [statusCode |-> 200, text |-> ""]
    ELSE IF e.httpMethod # "POST" THEN Response(405, [error |-> MsgMethod])
    ELSE IF environment.ANTHROPIC_API_KEY \in {<< >>, <<"">>} THEN Failure(MsgNoKey)
    ELSE IF e.body.kind = "malformed" THEN Failure(MsgJson)
    ELSE IF ~Truthy(Field(e.body, "url")) \/ NoTemplate(Field(e.body, "template"))
         THEN Response(400, [error |-> MsgRequired])
    ELSE None

\* the credential check dropped
EarlyResponseNoKeyCheck(e, environment) ==
    IF e.httpMethod = "OPTIONS" THEN [statusCode |-> 200, text |-> ""]
    ELSE IF e.httpMethod # "POST" THEN Response(405, [error |-> MsgMethod])
    ELSE IF e.body.kind = "malformed" THEN Failure(MsgJson)
    ELSE IF ~Truthy(Field(e.body, "url")) \/ NoTemplate(Field(e.body, "template"))
         THEN Response(400, [error |-> MsgRequired])
    ELSE IF ~UrlParses(e.body.url) THEN Response(400, [error |-> MsgInvalidUrl])
    ELSE None

\* lines 165-206: the response the handler returns before any await, None
\* when it goes on to extractWebpageContent.  The OPTIONS response has the
\* empty text as its body, every other response the JSON of an object.
EarlyResponse(e, environment) ==
    IF e.httpMethod = "OPTIONS" THEN [statusCode |-> 200, text |-> ""]
    ELSE IF e.httpMethod # "POST" THEN Response(405, [error |-> MsgMethod])
    ELSE IF environment.ANTHROPIC_API_KEY \in {<< >>, <<"">>} THEN Failure(MsgNoKey)
    ELSE IF e.body.kind = "malformed" THEN Failure(MsgJson)
    ELSE IF ~Truthy(Field(e.body, "url")) \/ NoTemplate(Field(e.body, "template"))
         THEN Response(400, [error |-> MsgRequired])
    ELSE IF ~UrlParses(e.body.url) THEN Response(400, [error |-> MsgInvalidUrl])
    ELSE None

\* JSON.stringify(result): a key whose value is undefined is left out
ResultBody(content, cols, svgContent) ==
    IF cols = << >>
    THEN [ title |-> content.title, description |-> content.description,
           keywords |-> content.keywords, svgContent |-> svgContent ]
    ELSE [ title |-> content.title, description |-> content.description,
           colors |-> cols[1],
           keywords |-> content.keywords, svgContent |-> svgContent ]

(***************************************************************************)
(* App.tsx: the state of the page.  app holds the useState values (url,    *)
(* isAnalyzing, analysisResult, selectedTemplate, isGenerating, svgContent,  *)
(* error; null is the empty sequence), requests the state of the last      *)
(* fetch made by analyzeUrl and by regenerateBanner: "idle" (none made),   *)
(* "pending", "succeeded", "failed".                                       *)
(***************************************************************************)
AppInit ==
    [ url |-> << >>, isAnalyzing |-> FALSE, analysisResult |-> << >>,
      selectedTemplate |-> "modern", isGenerating |-> FALSE,
      svgContent |-> << >>, error |-> << >> ]

Callers == {"analyzeUrl", "regenerateBanner"}

\* the loading flag a caller sets and clears
Flag(caller) == IF caller = "analyzeUrl" THEN "isAnalyzing" ELSE "isGenerating"

\* the message used when the error carries none
Fallback(caller) ==
    IF caller = "analyzeUrl" THEN "Failed to analyze URL" ELSE "Failed to generate banner"

MsgEnterValidUrl == "Please enter a valid URL"

\* the state after setIsAnalyzing(true) / setIsGenerating(true), setError(null)
Started(state, caller) == [state EXCEPT ![Flag(caller)] = TRUE, !.error = << >>]

\* the result is stored without the markup shown
OnSuccessResultOnly(state, result) == [state EXCEPT !.analysisResult = <<result>>]

\* setAnalysisResult(result); setSvgContent(result.svgContent)
OnSuccess(state, result) ==
    [state EXCEPT !.analysisResult = <<result>>, !.svgContent = result.svgContent]

\* the message of the error caught: that of a rejected fetch or json(), or
\* errorData.message || fallback for a response that is not ok
Thrown(caller, outcome) ==
    IF "rejects" \in DOMAIN outcome THEN outcome.rejects
    ELSE IF "message" \in DOMAIN outcome.body /\ outcome.body.message # ""
         THEN outcome.body.message
    ELSE Fallback(caller)

\* setError(message)
OnFailure(state, text) == [state EXCEPT !.error = <<text>>]

\* finally: setIsAnalyzing(false) / setIsGenerating(false)
Finished(state, caller) == [state EXCEPT ![Flag(caller)] = FALSE]

(***************************************************************************)
(* The handler as a state machine.  pc is the await the handler is         *)
(* suspended at: "idle" (no request), "fetching" (fetch(url) pending),     *)
(* "generating" (anthropic.messages.create pending), "done" (response      *)
(* returned).  calls lists the external calls started for the request,     *)
(* aiResponse is what the generation call resolved with, and caught is the *)
(* error bound by the catch of extractWebpageContent (line 82) or of       *)
(* generateBannerWithAI (line 150), if one was thrown.                     *)
(***************************************************************************)
Init ==
    /\ pc = "idle"
    /\ event = None
    /\ env = None
    /\ page = None
    /\ webpageContent = None
    /\ colors = << >>
    /\ response = None
    /\ calls = << >>
    /\ aiResponse = None
    /\ caught = << >>
    /\ app = AppInit
    /\ requests = [caller \in Callers |-> "idle"]

\* the handler runs from its entry to its first await or return
HandlerStart(e, environment) ==
    /\ pc = "idle"
    /\ event' = e
    /\ env' = environment
    /\ page' = None
    /\ webpageContent' = None
    /\ colors' = << >>
    /\ aiResponse' = None
    /\ caught' = << >>
    /\ IF EarlyResponse(e, environment) = None
       THEN /\ pc' = "fetching"
            /\ calls' = <<"fetch">>
            /\ response' = None
       ELSE /\ pc' = "done"
            /\ calls' = << >>
            /\ response' = EarlyResponse(e, environment)

\* the fetch tried once more before giving up
AfterFetchFailureRetry ==
    IF Len(calls) < 2
    THEN /\ pc' = "fetching"
         /\ calls' = Append(calls, "fetch")
         /\ response' = None
    ELSE /\ pc' = "done"
         /\ calls' = calls
         /\ response' = Failure(MsgAnalyze)

\* the error caught is answered as it is, not replaced by the generic one
AfterFetchFailureRaw ==
    /\ pc' = "done"
    /\ calls' = calls
    /\ response' = Failure(caught'[1])

\* line 82-86 and 243-253: the failure is rethrown and answered
AfterFetchFailure ==
    /\ pc' = "done"
    /\ calls' = calls
    /\ response' = Failure(MsgAnalyze)

\* fetch rejects (timeout, network, unsupported protocol), the status is not
\* ok, or reading or parsing the text throws: the catch of line 82 binds the
\* error why
FetchFails(why) ==
    /\ pc = "fetching"
    /\ caught' = <<why>>
    /\ AfterFetchFailure
    /\ UNCHANGED <<event, env, page, webpageContent, colors, aiResponse>>

\* fetch resolves with an ok response whose text is the document doc: lines
\* 36-81, then 211-227 up to the await of the generation call
FetchResolves(doc) ==
    /\ pc = "fetching"
    /\ FetchSupports(event.body.url)
    /\ page' = doc
    /\ LET content == Content(doc)
           resolved == ResolveColors(event.body.template, content.extractedColors)
       IN  /\ webpageContent' = content
           /\ IF resolved.threw
              THEN /\ colors' = << >>
                   /\ pc' = "done"
                   /\ calls' = calls
                   /\ response' = Failure(MsgTypeError)
              ELSE /\ colors' = resolved.colors
                   /\ pc' = "generating"
                   /\ calls' = Append(calls, "generate")
                   /\ response' = None
    /\ UNCHANGED <<event, env, aiResponse, caught>>

\* the generation call rejects with the error why: lines 150-153, 243-253
GenerationFails(why) ==
    /\ pc = "generating"
    /\ pc' = "done"
    /\ caught' = <<why>>
    /\ response' = Failure(MsgGenerate)
    /\ UNCHANGED <<event, env, page, webpageContent, colors, calls, aiResponse>>

\* the generation call resolves with reply: lines 141-149, 229-241
GenerationResolves(reply) ==
    /\ pc = "generating"
    /\ pc' = "done"
    /\ aiResponse' = reply
    /\ LET svgContent == IF reply.type = "text" THEN reply.text ELSE << >>
           svgMatch == SvgMatch(svgContent)
       IN  IF svgMatch # << >>
           THEN /\ caught' = << >>
                /\ response' = Response(200, ResultBody(webpageContent, colors, svgMatch[1]))
           ELSE /\ caught' = <<ErrNoSvg>>
                /\ response' = Failure(MsgGenerate)
    /\ UNCHANGED <<event, env, page, webpageContent, colors, calls>>

\* the response is sent and everything of the request is dropped
Deliver ==
    /\ pc = "done"
    /\ pc' = "idle"
    /\ event' = None
    /\ env' = None
    /\ page' = None
    /\ webpageContent' = None
    /\ colors' = << >>
    /\ response' = None
    /\ calls' = << >>
    /\ aiResponse' = None
    /\ caught' = << >>

(***************************************************************************)
(* The page: what the user does and how a pending fetch settles            *)
(***************************************************************************)
\* the input's onChange
SetUrl(text) ==
    /\ app' = [app EXCEPT !.url = text]
    /\ UNCHANGED requests

\* a template card is clicked; the cards are shown once there is a result
SelectTemplate(template) ==
    /\ app.analysisResult # << >>
    /\ app' = [app EXCEPT !.selectedTemplate = template]
    /\ UNCHANGED requests

\* handleUrlSubmit with a url typed in, the submit button not disabled: an
\* url that parses starts analyzeUrl up to its await, another sets the error
HandleUrlSubmit ==
    /\ ~app.isAnalyzing
    /\ app.url # << >>
    /\ IF UrlParses(app.url)
       THEN /\ app' = Started(app, "analyzeUrl")
            /\ requests' = [requests EXCEPT !["analyzeUrl"] = "pending"]
       ELSE /\ app' = OnFailure(app, MsgEnterValidUrl)
            /\ UNCHANGED requests

\* regenerateBanner up to its await: the button is shown once there is a
\* result and is disabled while isGenerating; nothing is done without a url
RegenerateBanner ==
    /\ app.analysisResult # << >>
    /\ ~app.isGenerating
    /\ app.url # << >>
    /\ app' = Started(app, "regenerateBanner")
    /\ requests' = [requests EXCEPT !["regenerateBanner"] = "pending"]

\* the pending fetch of caller settles with outcome and the rest of the
\* function runs: try, catch, finally
Settles(caller, outcome) ==
    /\ requests[caller] = "pending"
    /\ IF "ok" \in DOMAIN outcome /\ outcome.ok
       THEN /\ app' = Finished(OnSuccess(app, outcome.body), caller)
            /\ requests' = [requests EXCEPT ![caller] = "succeeded"]
       ELSE /\ app' = Finished(OnFailure(app, Thrown(caller, outcome)), caller)
            /\ requests' = [requests EXCEPT ![caller] = "failed"]

(***************************************************************************)
(* Inputs                                                                  *)
(***************************************************************************)
\* "https://example.com"
UrlExample == 
    <<"h", "t", "t", "p", "s", ":", "/", "/", "e", "x", "a", "m", "p", "l",
      "e", ".", "c", "o", "m">>

\* "https://www.example.com/page"
UrlWww == 
    <<"h", "t", "t", "p", "s", ":", "/", "/", "w", "w", "w", ".", "e", "x",
      "a", "m", "p", "l", "e", ".", "c", "o", "m", "/", "p", "a", "g", "e">>

\* "not a url"
UrlNotAUrl == <<"n", "o", "t", " ", "a", " ", "u", "r", "l">>

\* "example.com"
UrlNoScheme == <<"e", "x", "a", "m", "p", "l", "e", ".", "c", "o", "m">>

\* "https://"
UrlNoHost == <<"h", "t", "t", "p", "s", ":", "/", "/">>

\* "mailto:a@b.c"
UrlMailto == 
    <<"m", "a", "i", "l", "t", "o", ":", "a", "@", "b", ".", "c">>

Urls == {<< >>, UrlExample, UrlWww, UrlNotAUrl, UrlNoScheme, UrlNoHost, UrlMailto}

TemplateInputs == Templates \cup {"", "fancy"}

Bodies(urls, templates) ==
    {[kind |-> "null"], [kind |-> "malformed"], [kind |-> "object"]}
    \cup {[kind |-> "object", url |-> u] : u \in urls}
    \cup {[kind |-> "object", template |-> t] : t \in templates}
    \cup {[kind |-> "object", url |-> u, template |-> t] : u \in urls, t \in templates}

Events == {[httpMethod |-> m, body |-> b] :
             m \in {"POST", "OPTIONS", "GET"}, b \in Bodies(Urls, TemplateInputs)}

Envs == {[ANTHROPIC_API_KEY |-> k] : k \in {<< >>, <<"">>, <<"sk-ant-key">>}}

\* a well-formed request for the template t
GoodEvent(t) ==
    [httpMethod |-> "POST", body |-> [kind |-> "object", url |-> UrlExample, template |-> t]]

GoodEnv == [ANTHROPIC_API_KEY |-> <<"sk-ant-key">>]

\* a document with no title, description, keywords, text or style
EmptyPage ==
    [ titleText |-> << >>, ogTitle |-> << >>, h1Text |-> << >>,
      metaDescription |-> << >>, ogDescription |-> << >>, pText |-> << >>,
      keywordsContent |-> << >>, styleContent |-> << >> ]

\* "Example"
TextExample == <<"E", "x", "a", "m", "p", "l", "e">>

\* "Hello world and more."
TextHello == 
    <<"H", "e", "l", "l", "o", " ", "w", "o", "r", "l", "d", " ", "a", "n",
      "d", " ", "m", "o", "r", "e", ".">>

\* " Open Graph "
TextOg == 
    <<" ", "O", "p", "e", "n", " ", "G", "r", "a", "p", "h", " ">>

\* "ai, tools, ai"
TextKeywords == 
    <<"a", "i", ",", " ", "t", "o", "o", "l", "s", ",", " ", "a", "i">>

\* the character U+0060, which a TLA+ string cannot hold
Tick == "U+0060"

\* "<svg></svg>"
SvgPlain == <<"<", "s", "v", "g", ">", "<", "/", "s", "v", "g", ">">>

\* three ticks, "svg\n<svg>x</svg>\n", three ticks, " done"
SvgFenced == 
    <<Tick, Tick, Tick, "s", "v", "g", "\n", "<", "s", "v", "g", ">", "x", "<",
      "/", "s", "v", "g", ">", "\n", Tick, Tick, Tick, " ", "d", "o", "n", "e">>

\* "<SVG></SVG>"
SvgUpper == <<"<", "S", "V", "G", ">", "<", "/", "S", "V", "G", ">">>

\* "<svg></svg> and <svg></svg>"
SvgTwice == 
    <<"<", "s", "v", "g", ">", "<", "/", "s", "v", "g", ">", " ", "a", "n",
      "d", " ", "<", "s", "v", "g", ">", "<", "/", "s", "v", "g", ">">>

\* "sorry"
SvgNone == <<"s", "o", "r", "r", "y">>

Replies ==
    {[type |-> "tool_use"]}
    \cup {[type |-> "text", text |-> t] :
            t \in {SvgPlain, SvgFenced, SvgUpper, SvgTwice, SvgNone, << >>}}

PlainReply == [type |-> "text", text |-> SvgPlain]

(***************************************************************************)
(* Style blocks: up to MaxLexemes lexemes, each closed by ';'              *)
(***************************************************************************)
\* "#000000"
HexBlack == <<"#", "0", "0", "0", "0", "0", "0">>

\* "#ffffff"
HexWhite == <<"#", "f", "f", "f", "f", "f", "f">>

\* "#3B82F6"
HexBlueUpper == <<"#", "3", "B", "8", "2", "F", "6">>

\* "#3b82f6"
HexBlueLower == <<"#", "3", "b", "8", "2", "f", "6">>

\* "#112233"
HexNavy == <<"#", "1", "1", "2", "2", "3", "3">>

\* "#FFF"
HexWhiteShort == <<"#", "F", "F", "F">>

\* "rgb(0,0,0)"
RgbBlack == <<"r", "g", "b", "(", "0", ",", "0", ",", "0", ")">>

\* "rgba(9,9,9,1)"
RgbaGrey == 
    <<"r", "g", "b", "a", "(", "9", ",", "9", ",", "9", ",", "1", ")">>

\* "rgb(0, 0, 0)"
RgbBlackSpaced == <<"r", "g", "b", "(", "0", ",", " ", "0", ",", " ", "0", ")">>

\* "red"
NamedRed == <<"r", "e", "d">>

Lexemes == {HexWhiteShort, RgbBlack, HexBlueUpper, HexBlueLower, HexNavy,
            RgbBlackSpaced, NamedRed}

SeqsUpTo(S, n) == UNION {[1..k -> S] : k \in 0..n}

RECURSIVE JoinLexemes(_)
JoinLexemes(ls) ==
    IF ls = << >> THEN << >> ELSE Head(ls) \o <<";">> \o JoinLexemes(Tail(ls))

StyleBlocks(lexemes) == {JoinLexemes(ls) : ls \in SeqsUpTo(lexemes, MaxLexemes)}

StylePages(lexemes) ==
    {[EmptyPage EXCEPT !.styleContent = st] : st \in StyleBlocks(lexemes)}

(***************************************************************************)
(* Texts: a run of one letter of length 0, 1, cap or cap + 1, with up to   *)
(* MaxPad blanks before and after                                          *)
(***************************************************************************)
Texts(c, cap) ==
    {Rep(" ", l) \o Rep(c, n) \o Rep(" ", t) :
        l \in 0..MaxPad, t \in 0..MaxPad, n \in {0, 1, cap, cap + 1}}

Optional(S) == {<< >>} \cup {<<x>> : x \in S}

TitlePages ==
    {[EmptyPage EXCEPT !.titleText = t, !.ogTitle = o, !.h1Text = h] :
        t \in Texts("t", TitleCap), o \in Optional(Texts("o", TitleCap)),
        h \in Texts("h", TitleCap)}

DescriptionPages ==
    {[EmptyPage EXCEPT !.metaDescription = m, !.ogDescription = o, !.pText = p] :
        m \in Optional(Texts("m", DescriptionCap)),
        o \in Optional(Texts("o", DescriptionCap)),
        p \in Texts("p", DescriptionCap)}

SamplePages ==
    { EmptyPage,
      [EmptyPage EXCEPT !.titleText = TextExample, !.pText = TextHello],
      [EmptyPage EXCEPT !.ogTitle = <<TextOg>>, !.keywordsContent = <<TextKeywords>>,
                        !.styleContent = JoinLexemes(<<HexNavy>>)],
      [EmptyPage EXCEPT !.h1Text = TextExample,
                        !.styleContent = JoinLexemes(<<HexBlack, HexBlueUpper, HexBlueLower, HexWhite>>)] }

(***************************************************************************)
(* Specifications                                                          *)
(***************************************************************************)
NextOver(events, envs, pages, replies) ==
    \/ pc = "idle" /\ UNCHANGED client
          /\ \E e \in events, environment \in envs : HandlerStart(e, environment)
    \/ pc = "fetching" /\ UNCHANGED client
          /\ \E why \in FetchErrors : FetchFails(why)
    \/ pc = "fetching" /\ UNCHANGED client
          /\ \E doc \in pages : FetchResolves(doc)
    \/ pc = "generating" /\ UNCHANGED client
          /\ \E why \in GenerationErrors : GenerationFails(why)
    \/ pc = "generating" /\ UNCHANGED client
          /\ \E reply \in replies : GenerationResolves(reply)
    \/ Deliver /\ UNCHANGED client

\* every request, a few documents, every kind of reply
Next == NextOver(Events, Envs, SamplePages, Replies)

Spec == Init /\ [][Next]_vars

PaletteLexemes == {HexBlack, HexBlueUpper, HexNavy, RgbaGrey}

\* a well-formed request for every template, every style block over four
\* lexemes
NextPalette ==
    NextOver({GoodEvent(t) : t \in Templates \cup {"fancy"}}, {GoodEnv},
             StylePages(PaletteLexemes), {PlainReply})

SpecPalette == Init /\ [][NextPalette]_vars

\* one well-formed request, every style block
NextStyle ==
    NextOver({GoodEvent("modern")}, {GoodEnv}, StylePages(Lexemes), {PlainReply})

SpecStyle == Init /\ [][NextStyle]_vars

\* one well-formed request, every combination of title sources
NextTitle ==
    NextOver({GoodEvent("modern")}, {GoodEnv}, TitlePages, {PlainReply})

SpecTitle == Init /\ [][NextTitle]_vars

\* one well-formed request, every combination of description sources
NextDescription ==
    NextOver({GoodEvent("modern")}, {GoodEnv}, DescriptionPages, {PlainReply})

SpecDescription == Init /\ [][NextDescription]_vars

\* the parts of a generated text: three ticks and "svg\n", "<svg>",
\* "<SVG w>", "</svg>", "ok"
TextParts ==
    { <<Tick, Tick, Tick, "s", "v", "g", "\n">>, <<"<", "s", "v", "g", ">">>,
      <<"<", "S", "V", "G", " ", "w", ">">>, <<"<", "/", "s", "v", "g", ">">>,
      <<"o", "k">> }

RECURSIVE Concat(_)
Concat(ps) == IF ps = << >> THEN << >> ELSE Head(ps) \o Concat(Tail(ps))

\* every text of up to MaxParts parts, and a reply that is no text
ArtifactReplies ==
    {[type |-> "tool_use"]}
    \cup {[type |-> "text", text |-> Concat(ps)] : ps \in SeqsUpTo(TextParts, MaxParts)}

\* one well-formed request, one document, every generated text
NextArtifact ==
    NextOver({GoodEvent("modern")}, {GoodEnv}, {EmptyPage}, ArtifactReplies)

SpecArtifact == Init /\ [][NextArtifact]_vars

\* "ai", " tools", " ai", "seo " and the empty entry
KeywordEntries ==
    { <<"a", "i">>, <<" ", "t", "o", "o", "l", "s">>, <<" ", "a", "i">>,
      <<"s", "e", "o", " ">>, << >> }

RECURSIVE JoinEntries(_)
JoinEntries(ls) ==
    IF ls = << >> THEN << >>
    ELSE IF Len(ls) = 1 THEN Head(ls)
    ELSE Head(ls) \o <<",">> \o JoinEntries(Tail(ls))

\* n entries "k", each followed by a comma
RECURSIVE Filled(_)
Filled(n) == IF n = 0 THEN << >> ELSE <<"k", ",">> \o Filled(n - 1)

\* up to MaxEntries entries, alone or after a run of entries that reaches the
\* cap or stops one short of it
KeywordContents ==
    {Filled(n) \o JoinEntries(ls) :
        n \in {0, KeywordCap - 1, KeywordCap}, ls \in SeqsUpTo(KeywordEntries, MaxEntries)}

KeywordPages ==
    {[EmptyPage EXCEPT !.keywordsContent = k] : k \in Optional(KeywordContents)}

\* one well-formed request, every keywords content
NextKeywords ==
    NextOver({GoodEvent("modern")}, {GoodEnv}, KeywordPages, {PlainReply})

SpecKeywords == Init /\ [][NextKeywords]_vars

\* the urls typed in: none, "https://example.com", "not a url"
ClientUrls == {<< >>, UrlExample, UrlNotAUrl}

\* two results of the service, with different markup
ClientResults ==
    {ResultBody(Content(EmptyPage), <<DefaultColorPalette("modern")>>, svg) :
        svg \in {SvgPlain, SvgUpper}}

\* what a fetch of /api/generate-banner settles with: a 200 and its result,
\* a 500 with a message, a 400 without one, a rejection
Outcomes ==
    {[ok |-> TRUE, body |-> r] : r \in ClientResults}
    \cup {[ok |-> FALSE, body |-> [error |-> MsgInternal, message |-> m]] :
            m \in {MsgAnalyze, MsgGenerate}}
    \cup {[ok |-> FALSE, body |-> [error |-> MsgInvalidUrl]]}
    \cup {[rejects |-> "Failed to fetch"]}

\* the page alone: the user types, submits, picks a template, regenerates,
\* and the pending fetches settle in any order
NextClient ==
    \/ UNCHANGED server /\ \E text \in ClientUrls : SetUrl(text)
    \/ UNCHANGED server /\ \E template \in Templates : SelectTemplate(template)
    \/ UNCHANGED server /\ HandleUrlSubmit
    \/ UNCHANGED server /\ RegenerateBanner
    \/ UNCHANGED server /\ \E caller \in Callers, outcome \in Outcomes : Settles(caller, outcome)

SpecClient == Init /\ [][NextClient]_vars

(***************************************************************************)
(* Properties                                                              *)
(***************************************************************************)
\* a POST request is being handled or has just been answered
Handling == event # None /\ event.httpMethod = "POST"

Answered == Handling /\ pc = "done"

KeyAbsent == env.ANTHROPIC_API_KEY \in {<< >>, <<"">>}

\* the field is given: present and not the empty string
UrlGiven == Truthy(Field(event.body, "url"))

TemplateGiven == ~NoTemplate(Field(event.body, "template"))

\* the request carries a url that new URL() rejects
UrlInvalid == UrlGiven /\ ~UrlParses(event.body.url)

NoExternalCall == calls = << >> /\ pc \notin {"fetching", "generating"}

\* C1 as stated: every POST request whose url fails URL-syntax validation is
\* answered 400 {error: "Invalid URL provided"}, and neither the fetcher nor
\* the generation service is invoked.
C1_Original ==
    (Answered /\ UrlInvalid) =>
        /\ response = Response(400, [error |-> MsgInvalidUrl])
        /\ calls = << >>

\* C1 amended: a POST request whose url fails URL-syntax validation never
\* invokes the fetcher or the generation service at any point of its
\* handling; it is answered 400 {error: "Invalid URL provided"} when the
\* credential is set and a template is given (otherwise the earlier checks
\* answer first, with 500 or with 400 "URL and template are required").
C1_InvalidUrlNeverFetched ==
    (Handling /\ UrlInvalid) =>
        /\ pc = "done"
        /\ NoExternalCall
        /\ response =
              IF KeyAbsent THEN Failure(MsgNoKey)
              ELSE IF ~TemplateGiven THEN Response(400, [error |-> MsgRequired])
              ELSE Response(400, [error |-> MsgInvalidUrl])

C1_Witness ==
    /\ Answered
    /\ UrlGiven
    /\ event.body.url = UrlNotAUrl
    /\ response = Response(400, [error |-> MsgInvalidUrl])
    /\ calls = << >>

\* C2: with the credential absent at request time every POST request ends in
\* a 500 response carrying the message that names the missing variable, and
\* no fetch and no generation call is attempted for it.
C2_NoKeyFailsFast ==
    (Handling /\ KeyAbsent) =>
        /\ pc = "done"
        /\ NoExternalCall
        /\ response = Failure(MsgNoKey)

C2_Witness ==
    /\ Answered
    /\ env.ANTHROPIC_API_KEY = << >>
    /\ event = GoodEvent("modern")
    /\ response.statusCode = 500
    /\ response.body.message = MsgNoKey

\* the request fields are malformed: the body is no JSON, or the template is
\* none of the four
FieldsMalformed ==
    \/ event.body.kind = "malformed"
    \/ TemplateGiven /\ event.body.template \notin Templates

\* C3 as stated, for requests made with the credential set: a POST request
\* in which url or template is absent, or whose fields are malformed, is
\* answered 400 {error: "URL and template are required"} and makes no fetch
\* and no generation call.
C3_Original ==
    (Handling /\ ~KeyAbsent /\ (~UrlGiven \/ ~TemplateGiven \/ FieldsMalformed)) =>
        /\ NoExternalCall
        /\ pc = "done" => response = Response(400, [error |-> MsgRequired])

\* C4: the external calls of a request are a prefix of <fetch, generate>; the
\* generation call is started only once the fetch has resolved and the
\* extraction has produced its content, at most one call is pending at a
\* time, and no call is made a second time.
C4_CallsInOrder ==
    /\ calls \in {<< >>, <<"fetch">>, <<"fetch", "generate">>}
    /\ pc = "fetching" => calls = <<"fetch">>
    /\ pc = "generating" => calls = <<"fetch", "generate">>
    /\ Len(calls) = 2 => page # None /\ webpageContent = Content(page)
    /\ Len(calls) < 2 /\ pc # "done" => webpageContent = None

C4_Witness ==
    /\ pc = "done"
    /\ calls = <<"fetch", "generate">>
    /\ response = Failure(MsgGenerate)

ResultFields == {"title", "description", "colors", "keywords", "svgContent"}

\* C5 as stated: every handled POST request ends in a 200 response holding
\* all five result fields, or in a failure response holding an error and
\* none of them.
C5_Original ==
    Answered =>
        \/ /\ response.statusCode = 200
           /\ ResultFields \subseteq DOMAIN response.body
        \/ /\ response.statusCode # 200
           /\ "error" \in DOMAIN response.body
           /\ ResultFields \cap DOMAIN response.body = {}

\* the fetched document has been read and its content extracted
Extracted == page # None /\ webpageContent # None

\* "#64748B", the second color of the modern default pair
ModernSecond == <<"#", "6", "4", "7", "4", "8", "B">>

\* C6: for each of the four templates the resolved colors are exactly two:
\* the first two extracted colors when at least two were extracted, the one
\* extracted color followed by the template's default second color when one
\* was extracted, and the template's default pair when none was; the 200
\* response carries these colors.
C6_PaletteResolution ==
    (Extracted /\ event.body.template \in Templates) =>
        LET extracted == webpageContent.extractedColors
            default == Palette(event.body.template)
        IN  /\ colors # << >>
            /\ Len(colors[1]) = 2
            /\ Len(extracted) >= 2 => colors[1] = <<extracted[1], extracted[2]>>
            /\ Len(extracted) = 1 => colors[1] = <<extracted[1], default[2]>>
            /\ Len(extracted) = 0 => colors[1] = default
            /\ (pc = "done" /\ response.statusCode = 200) =>
                  response.body.colors = colors[1]

C6_Witness ==
    /\ Extracted
    /\ pc = "done"
    /\ event.body.template = "modern"
    /\ webpageContent.extractedColors = <<HexNavy>>
    /\ response.statusCode = 200
    /\ response.body.colors = <<HexNavy, ModernSecond>>

\* the colors x and y differ at most in letter case
SameIgnoringCase(x, y) == ToLowerCase(x) = ToLowerCase(y)

\* C7 as stated: no two extracted colors differ only in letter case, and the
\* style block "#000000;#3B82F6;#3b82f6;#ffffff;" yields ["#3B82F6"].
C7_Original ==
    Extracted =>
        LET extracted == webpageContent.extractedColors
        IN  /\ \A i, j \in 1..Len(extracted) :
                  SameIgnoringCase(extracted[i], extracted[j]) => i = j
            /\ page.styleContent =
                  JoinLexemes(<<HexBlack, HexBlueUpper, HexBlueLower, HexWhite>>)
                  => extracted = <<HexBlueUpper>>

RECURSIVE Squeeze(_)
\* s without its blanks
Squeeze(s) ==
    IF s = << >> THEN << >>
    ELSE IF Head(s) = " " THEN Squeeze(Tail(s))
    ELSE <<Head(s)>> \o Squeeze(Tail(s))

\* color is pure black or pure white however it is written: one of the hex
\* forms in either case, or rgb(0,0,0) / rgb(255,255,255) with or without
\* blanks
PureBlackOrWhite(color) == Squeeze(ToLowerCase(color)) \in CommonColors

\* C8 as stated: the extracted colors hold no duplicate, no pure black or
\* pure white value in hex or functional form, and at most the cap.
C8_Original ==
    Extracted =>
        LET extracted == webpageContent.extractedColors
        IN  /\ Len(extracted) <= ColorCap
            /\ \A i, j \in 1..Len(extracted) : extracted[i] = extracted[j] => i = j
            /\ \A i \in 1..Len(extracted) : ~PureBlackOrWhite(extracted[i])

\* position of the first occurrence of x in xs
FirstAt(xs, x) == CHOOSE i \in 1..Len(xs) : xs[i] = x /\ \A k \in 1..(i - 1) : xs[k] # x

\* C8 amended: extractedColors is the sequence of color tokens of the style
\* text, deduplicated in first-occurrence order (identical tokens; C7 is
\* about tokens that differ in letter case), stripped of every token
\* whose lower-case text is one of the six blocklisted literals (#000, #fff,
\* #ffffff, #000000, rgb(0,0,0), rgb(255,255,255); a pure black or white
\* written otherwise, such as rgb(0, 0, 0), is kept), then cut to the cap of
\* 3: no duplicate, no blocklisted literal, at most 3 entries, no slot taken
\* by a duplicate or a blocklisted token; no style text or no match gives
\* the empty sequence and the request goes on to the generation call.
C8_ExtractedColors ==
    Extracted =>
        LET extracted == webpageContent.extractedColors
            tokens == ColorMatches(page.styleContent)
            eligible == {tokens[i] : i \in 1..Len(tokens)} \ {t \in {tokens[i] : i \in 1..Len(tokens)} : ToLowerCase(t) \in CommonColors}
        IN  /\ Len(extracted) = Min(ColorCap, Cardinality(eligible))
            /\ \A i \in 1..Len(extracted) : extracted[i] \in eligible
            /\ \A i, j \in 1..Len(extracted) :
                  i < j => FirstAt(tokens, extracted[i]) < FirstAt(tokens, extracted[j])
            /\ \A t \in eligible :
                  (\A i \in 1..Len(extracted) : extracted[i] # t) =>
                      \A i \in 1..Len(extracted) :
                          FirstAt(tokens, extracted[i]) < FirstAt(tokens, t)
            /\ tokens = << >> => extracted = << >> /\ Len(calls) = 2

\* a blocklisted token ahead of three colors takes none of the three slots
C8_Witness ==
    /\ Extracted
    /\ page.styleContent =
          JoinLexemes(<<HexWhiteShort, HexBlueUpper, HexNavy, RgbBlackSpaced>>)
    /\ webpageContent.extractedColors = <<HexBlueUpper, HexNavy, RgbBlackSpaced>>

\* the first n characters of s
Take(s, n) == SubSeq(s, 1, Min(n, Len(s)))

\* C9 as stated, for an og:title whose trimmed content is non-empty and at
\* most 100 characters: a document without <title> text but with og:title
\* yields exactly the trimmed og:title content.
C9_Original ==
    (/\ Extracted
     /\ Trim(page.titleText) = << >>
     /\ page.ogTitle # << >>
     /\ Trim(page.ogTitle[1]) # << >>
     /\ Len(Trim(page.ogTitle[1])) <= TitleCap)
        => webpageContent.title = Trim(page.ogTitle[1])

\* C9 amended: the title is the first non-empty of the trimmed <title> text,
\* the og:title content as written (not trimmed), the trimmed first <h1>
\* text and "Untitled Page", cut to its first 100 characters: a document
\* without <title> text but with a non-empty og:title content yields the
\* first 100 characters of that content unchanged, a document with no title
\* source yields "Untitled Page", and the title is never empty and at most
\* 100 characters.
C9_TitleResolution ==
    Extracted =>
        LET t == Trim(page.titleText)
            og == page.ogTitle
            h == Trim(page.h1Text)
            title == webpageContent.title
        IN  /\ title = Take(IF t # << >> THEN t
                            ELSE IF og # << >> /\ og[1] # << >> THEN og[1]
                            ELSE IF h # << >> THEN h
                            ELSE UntitledPage, TitleCap)
            /\ Len(title) >= 1
            /\ Len(title) <= TitleCap

\* no <title> text, an og:title of 101 letters after a blank, and an <h1>:
\* the title is the blank and the first 99 letters
C9_Witness ==
    /\ Extracted
    /\ Trim(page.titleText) = << >>
    /\ page.ogTitle = << <<" ">> \o Rep("o", TitleCap + 1) >>
    /\ page.h1Text = <<"h">>
    /\ webpageContent.title = <<" ">> \o Rep("o", TitleCap - 1)

\* C10: the description is the first non-empty of the description meta
\* content, the og:description content, the first paragraph's text and "No
\* description available", cut to 200 characters after that choice: it is
\* never empty and at most 200 characters.
C10_DescriptionResolution ==
    Extracted =>
        LET meta == page.metaDescription
            og == page.ogDescription
            p == Trim(page.pText)
            description == webpageContent.description
        IN  /\ description = Take(IF meta # << >> /\ meta[1] # << >> THEN meta[1]
                                  ELSE IF og # << >> /\ og[1] # << >> THEN og[1]
                                  ELSE IF p # << >> THEN p
                                  ELSE NoDescription, DescriptionCap)
            /\ Len(description) >= 1
            /\ Len(description) <= DescriptionCap

\* no description meta, an og:description of 201 letters and a paragraph: the
\* description is the first 200 letters of the og:description
C10_Witness ==
    /\ Extracted
    /\ page.metaDescription = << >>
    /\ page.ogDescription = <<Rep("o", DescriptionCap + 1)>>
    /\ page.pText = <<"p">>
    /\ webpageContent.description = Rep("o", DescriptionCap)

\* the places of the commas of s
Commas(s) == {i \in 1..Len(s) : s[i] = ","}

\* the n-th comma of s; place 0 before the first and Len(s) + 1 after the last
CommaAt(s, n) ==
    IF n = 0 THEN 0
    ELSE IF n > Cardinality(Commas(s)) THEN Len(s) + 1
    ELSE CHOOSE c \in Commas(s) : Cardinality({d \in Commas(s) : d < c}) = n - 1

\* the n-th comma-separated entry of s
EntryAt(s, n) == SubSeq(s, CommaAt(s, n - 1) + 1, CommaAt(s, n) - 1)

\* k is entry without the white space around it
TrimmedOf(entry, k) ==
    /\ k = << >> \/ (k[1] \notin WhiteSpace /\ k[Len(k)] \notin WhiteSpace)
    /\ \E a \in 0..Len(entry) :
          /\ a + Len(k) <= Len(entry)
          /\ SubSeq(entry, a + 1, a + Len(k)) = k
          /\ \A i \in (1..a) \cup ((a + Len(k) + 1)..Len(entry)) : entry[i] \in WhiteSpace

\* C11: the keywords are the comma-separated entries of the keywords meta
\* content, each trimmed, in source order with duplicates kept, cut to the
\* first 10; an absent (or empty) keywords meta gives the empty sequence.
C11_Keywords ==
    Extracted =>
        LET meta == page.keywordsContent
            keywords == webpageContent.keywords
        IN  IF meta = << >> \/ meta[1] = << >>
            THEN keywords = << >>
            ELSE /\ Len(keywords) = Min(Cardinality(Commas(meta[1])) + 1, 10)
                 /\ \A n \in 1..Len(keywords) : TrimmedOf(EntryAt(meta[1], n), keywords[n])

\* "ai, tools, ai" gives "ai", "tools", "ai"
C11_Witness ==
    /\ Extracted
    /\ page.keywordsContent = <<TextKeywords>>
    /\ webpageContent.keywords = << <<"a", "i">>, <<"t", "o", "o", "l", "s">>, <<"a", "i">> >>

\* twelve entries are cut to the first ten
C11_WitnessCut ==
    /\ Extracted
    /\ page.keywordsContent # << >>
    /\ Cardinality(Commas(page.keywordsContent[1])) = 11
    /\ Len(webpageContent.keywords) = 10
    /\ webpageContent.keywords[10] = <<"a", "i">>

\* the generation call resolved with the text aiResponse.text
Generated == pc = "done" /\ aiResponse # None /\ aiResponse.type = "text"

\* the places in text where a tag opens with "<svg" and where one closes
\* with "</svg>", in either letter case
OpeningTags(text) == PositionsOf(text, SvgOpen)

ClosingTags(text) == PositionsOf(text, SvgClose)

\* C12: for a generated text made of prose or a code fence, then one
\* <svg ...>...</svg> fragment in either letter case, then a closing fence
\* or commentary, the svgContent returned is exactly that fragment, from its
\* <svg to its </svg>.
C12_FragmentExtracted ==
    Generated =>
        LET text == aiResponse.text
            opens == OpeningTags(text)
            closes == ClosingTags(text)
        IN  \A i \in opens, j \in closes :
                (opens = {i} /\ closes = {j} /\ i < j)
                => /\ response.statusCode = 200
                   /\ response.body.svgContent = SubSeq(text, i, j + 5)

\* the fence, "<SVG w>", "ok", "</svg>": the fragment without the fence
C12_Witness ==
    /\ Generated
    /\ aiResponse.text =
          <<Tick, Tick, Tick, "s", "v", "g", "\n", "<", "S", "V", "G", " ", "w", ">",
            "o", "k", "<", "/", "s", "v", "g", ">">>
    /\ response.statusCode = 200
    /\ response.body.svgContent =
          <<"<", "S", "V", "G", " ", "w", ">", "o", "k", "<", "/", "s", "v", "g", ">">>

\* the generated text holds no "<svg" followed, further on, by "</svg>"
NoFragment ==
    \/ aiResponse.type # "text"
    \/ ~ \E i \in OpeningTags(aiResponse.text), j \in ClosingTags(aiResponse.text) : i < j

\* C13: when the generated text holds no <svg>...</svg> fragment, the
\* validation fails, no result is produced, the generation is not called
\* again, and the request is answered 500 with the message "Failed to
\* generate banner with AI", as for a failure of the generation service.
C13_NoFragmentFails ==
    (pc = "done" /\ aiResponse # None /\ NoFragment) =>
        /\ caught = <<ErrNoSvg>>
        /\ response.statusCode = 500
        /\ response.body = [error |-> "Internal server error",
                            message |-> "Failed to generate banner with AI"]
        /\ calls = <<"fetch", "generate">>

\* "<svg>ok": an opening tag that is never closed
C13_Witness ==
    /\ Generated
    /\ aiResponse.text = <<"<", "s", "v", "g", ">", "o", "k">>
    /\ response = Failure(MsgGenerate)
    /\ calls = <<"fetch", "generate">>

\* C14 as stated: on every success response svgContent holds exactly one
\* <svg ...>...</svg> fragment, whatever the generated text was.  It fails for
\* the text "<svg></svg> and <svg></svg>", which is returned whole.
C14_Original ==
    (Generated /\ response.statusCode = 200) =>
        /\ Cardinality(OpeningTags(response.body.svgContent)) = 1
        /\ Cardinality(ClosingTags(response.body.svgContent)) = 1

\* C15: every failure of the fetch and extraction stage (the fetch timing
\* out, an upstream status that is not a success, an exception while reading
\* or parsing the page) is answered 500 with the message "Failed to analyze
\* webpage content", and the generation service is not called for the
\* request.
C15_FetchFailureIsGeneric ==
    (pc = "done" /\ caught # << >> /\ caught[1] \in FetchErrors) =>
        /\ response.statusCode = 500
        /\ response.body = [error |-> "Internal server error",
                            message |-> "Failed to analyze webpage content"]
        /\ calls = <<"fetch">>

\* the page answers 404
C15_Witness ==
    /\ pc = "done"
    /\ caught = <<ErrStatus404>>
    /\ response = Failure(MsgAnalyze)
    /\ "generate" \notin {calls[i] : i \in DOMAIN calls}

\* C16 as stated: a POST request whose template is none of modern, minimal,
\* gradient, bold never causes a page fetch or a generation call.  It fails
\* for the template "fancy", which is fetched and generated for.
C16_Original ==
    (Handling /\ TemplateGiven /\ event.body.template \notin Templates) => NoExternalCall

\* the markup shown is that of the result shown
ShownTogether ==
    app.analysisResult # << >> => app.svgContent = app.analysisResult[1].svgContent

\* a request of caller that fails changes the error and its loading flag
\* and nothing else
FailureSetsErrorOnly(caller) ==
    (requests[caller] = "pending" /\ requests'[caller] = "failed") =>
        /\ app'.analysisResult = app.analysisResult
        /\ app'.svgContent = app.svgContent
        /\ app'.error # << >>
        /\ app' = [app EXCEPT !.error = app'.error, ![Flag(caller)] = FALSE]

\* the loading flag of caller is false when its request has completed
FlagCleared(caller) ==
    (requests[caller] = "pending" /\ requests'[caller] \in {"succeeded", "failed"}) =>
        app'[Flag(caller)] = FALSE

\* C17: under every interleaving of analyzeUrl and regenerateBanner requests
\* and their responses, the svgContent shown is that of the analysisResult
\* shown whenever there is one; a failed request leaves both as they were and
\* sets only the error; and each loading flag is false again once its own
\* request has completed, on success and on failure.
C17_ClientConsistent ==
    /\ []ShownTogether
    /\ [][\A caller \in Callers : FailureSetsErrorOnly(caller) /\ FlagCleared(caller)]_vars

\* the analysis fails while a regeneration is pending: the result of an
\* earlier response stays shown with its markup, the error is set, and only
\* the regeneration is still loading
C17_Witness ==
    /\ requests = [caller \in Callers |->
                     IF caller = "analyzeUrl" THEN "failed" ELSE "pending"]
    /\ app.error = <<MsgAnalyze>>
    /\ app.analysisResult # << >>
    /\ app.analysisResult[1].svgContent = SvgUpper
    /\ app.svgContent = SvgUpper
    /\ ~app.isAnalyzing
    /\ app.isGenerating

====
